---- MODULE Spec2Model ----
\* A model of server.js of kid-vacation-planner: the Overpass query builder, the
\* mapping of Overpass elements to activities, and the HTTP request handler with
\* its outbound calls (fetchJSON) and its static-file route.
EXTENDS Integers, Sequences, FiniteSets, TLC

VARIABLES
    lat, lon, radius, categories,   \* the arguments of a buildOverpassQuery call
    query,                          \* the string that call returned
    prevQuery,                      \* the string returned for the list one entry shorter
    elements,                       \* data.elements as fetchActivities reads it
    activities,                     \* the array fetchActivities returns for it
    returned,                       \* whether that array has been returned yet
    requests,                       \* the server's requests, each with its own handler state
    process                         \* "running", or "exited" after an uncaught failure

vars == <<lat, lon, radius, categories, query, prevQuery, elements, activities, returned,
          requests, process>>

queryVars == <<lat, lon, radius, categories, query, prevQuery>>
mapVars == <<elements, activities, returned>>
serverVars == <<requests, process>>

-----------------------------------------------------------------------------
\* Bounds of the model.

MaxCats == 6        \* longest categories list handed to buildOverpassQuery

\* Values that stand for "no value yet" in the model's bookkeeping.
Unset == "(unset)"

-----------------------------------------------------------------------------
\* JavaScript values, tagged with their type.

Undefined == [t |-> "undefined"]
Null == [t |-> "null"]
NaN == [t |-> "NaN"]
Num(n) == [t |-> "number", v |-> n]
Str(s) == [t |-> "string", v |-> s]
isNaN(x) == x = NaN

\* ToBoolean, as || and && and ! apply it.
Truthy(x) ==
    CASE x.t = "undefined" -> FALSE
      [] x.t = "null"      -> FALSE
      [] x.t = "NaN"       -> FALSE
      [] x.t = "number"    -> x.v # 0
      [] x.t = "string"    -> x.v # ""
      [] x.t = "text"      -> x.v # <<>>
      [] OTHER             -> TRUE

\* `${x}` of a number: its decimal text, "NaN" for NaN.
NumberToString(x) == IF isNaN(x) THEN "NaN" ELSE ToString(x.v)

-----------------------------------------------------------------------------
\* buildOverpassQuery (server.js 47-67)

KnownCategories == {"playground", "park", "theme_park", "zoo", "museum", "water_park"}
CategoryNames == KnownCategories \cup {"castle"}

Around(la, lo, r) ==
    "(around:" \o NumberToString(r) \o "," \o NumberToString(la) \o ","
               \o NumberToString(lo) \o ");"

\* The switch of the map callback: one filter clause per category, '' by default.
QueryClause(cat, la, lo, r) ==
    CASE cat = "playground" -> "node[leisure=playground]" \o Around(la, lo, r)
      [] cat = "park"       -> "node[leisure=park]" \o Around(la, lo, r)
      [] cat = "theme_park" -> "node[tourism=theme_park]" \o Around(la, lo, r)
      [] cat = "zoo"        -> "node[tourism=zoo]" \o Around(la, lo, r)
      [] cat = "museum"     -> "node[tourism=museum]" \o Around(la, lo, r)
      [] cat = "water_park" -> "node[leisure=water_park]" \o Around(la, lo, r)
      [] OTHER              -> ""

\* categories.map(...)
QueryClauses(la, lo, r, cats) == [i \in 1..Len(cats) |-> QueryClause(cats[i], la, lo, r)]

\* Array.prototype.join('')
RECURSIVE Join(_)
Join(strs) == IF strs = <<>> THEN "" ELSE Head(strs) \o Join(Tail(strs))

\* A build that joins the clauses in reverse order.
buildOverpassQuery_Reversed(la, lo, r, cats) ==
    LET qs == QueryClauses(la, lo, r, cats)
    IN  "[out:json][timeout:25];("
        \o Join([i \in 1..Len(qs) |-> qs[Len(qs) + 1 - i]]) \o ");out body;"

\* A build whose default case emits a separator instead of ''.
buildOverpassQuery_DefaultSeparator(la, lo, r, cats) ==
    LET qs == QueryClauses(la, lo, r, cats)
    IN  "[out:json][timeout:25];("
        \o Join([i \in 1..Len(qs) |-> IF qs[i] = "" THEN ";" ELSE qs[i]])
        \o ");out body;"

buildOverpassQuery(la, lo, r, cats) ==
    "[out:json][timeout:25];(" \o Join(QueryClauses(la, lo, r, cats)) \o ");out body;"

-----------------------------------------------------------------------------
\* The query builder called on bounded arguments.

Lats == {Num(1), Num(-12)}
Lons == {Num(2)}
Radii == {Num(500), Num(0)}

\* The non-empty lists of at most n distinct names.
DistinctLists(names, n) ==
    UNION {{s \in [1..k -> names] : \A i, j \in 1..k : i # j => s[i] # s[j]} : k \in 1..n}

\* MaxCats bounds the list; no list of distinct names is longer than the name set.
MaxDistinct == IF MaxCats < Cardinality(CategoryNames) THEN MaxCats
               ELSE Cardinality(CategoryNames)

QueryInit ==
    /\ lat \in Lats
    /\ lon \in Lons
    /\ radius \in Radii
    /\ categories \in DistinctLists(CategoryNames, MaxDistinct)
    /\ query = Unset
    /\ prevQuery = Unset

\* The call buildOverpassQuery(lat, lon, radius, categories).
BuildQuery ==
    /\ query = Unset
    /\ query' = buildOverpassQuery(lat, lon, radius, categories)
    /\ UNCHANGED <<lat, lon, radius, categories, prevQuery, mapVars, serverVars>>

QueryNext == BuildQuery

\* The builder called on a list and then on the list with one more entry, a
\* repeat of a name allowed. The names appended: one for each clause length
\* (24, 20, 18 and 17 characters before the around part) and an unrecognized one.
ExtendNames == {"playground", "museum", "park", "zoo", "castle"}

ExtendInit ==
    /\ lat \in Lats
    /\ lon \in Lons
    /\ radius = Num(500)
    /\ categories \in {<<c>> : c \in CategoryNames}
    /\ query = Unset
    /\ prevQuery = Unset

AddCategory(c) ==
    /\ query # Unset
    /\ Len(categories) < MaxCats
    /\ categories' = Append(categories, c)
    /\ query' = buildOverpassQuery(lat, lon, radius, categories')
    /\ prevQuery' = query
    /\ UNCHANGED <<lat, lon, radius, mapVars, serverVars>>

ExtendNext ==
    \/ BuildQuery
    \/ \E c \in ExtendNames : AddCategory(c)

-----------------------------------------------------------------------------
\* fetchActivities, the mapping of data.elements (server.js 74-92)

MaxElements == 2    \* longest element list the map-data service returns

\* A category inference that tests the tourism rules before the leisure rules.
InferCategory_TourismFirst(el) ==
    IF el.tags = Undefined THEN "unknown"
    ELSE IF el.tags.tourism = Str("theme_park") THEN "theme_park"
    ELSE IF el.tags.tourism = Str("zoo") THEN "zoo"
    ELSE IF el.tags.tourism = Str("museum") THEN "museum"
    ELSE IF el.tags.leisure = Str("playground") THEN "playground"
    ELSE IF el.tags.leisure = Str("park") THEN "park"
    ELSE IF el.tags.leisure = Str("water_park") THEN "water_park"
    ELSE "unknown"

\* let category = 'unknown'; if (el.tags) { if ... else if ... }
InferCategory(el) ==
    IF el.tags = Undefined THEN "unknown"
    ELSE IF el.tags.leisure = Str("playground") THEN "playground"
    ELSE IF el.tags.leisure = Str("park") THEN "park"
    ELSE IF el.tags.tourism = Str("theme_park") THEN "theme_park"
    ELSE IF el.tags.tourism = Str("zoo") THEN "zoo"
    ELSE IF el.tags.tourism = Str("museum") THEN "museum"
    ELSE IF el.tags.leisure = Str("water_park") THEN "water_park"
    ELSE "unknown"

\* el.id || idx, with idx the zero-based position
ActivityId(el, idx) == IF Truthy(el.id) THEN el.id ELSE Num(idx)

\* (el.tags && el.tags.name) || '(unnamed)'
ActivityName(el) ==
    IF el.tags # Undefined /\ Truthy(el.tags.name) THEN el.tags.name ELSE Str("(unnamed)")

\* The callback of elements.map((el, idx) => ...)
Activity(el, idx) ==
    [id |-> ActivityId(el, idx), name |-> ActivityName(el), category |-> InferCategory(el),
     lat |-> el.lat, lon |-> el.lon]

MapElements(els) == [i \in 1..Len(els) |-> Activity(els[i], i - 1)]

\* The elements the map-data service is taken to return.
LeisureValues == {Undefined, Str("playground"), Str("park"), Str("water_park"), Str("garden")}
TourismValues == {Undefined, Str("theme_park"), Str("zoo"), Str("museum"), Str("hotel")}
IdValues == {Undefined, Num(0), Num(42)}

Tags(l, t, n) == [leisure |-> l, tourism |-> t, name |-> n]
Element(id, tags, la, lo) == [id |-> id, tags |-> tags, lat |-> la, lon |-> lo]

TagCombinations ==
    {Undefined} \cup {Tags(l, t, Undefined) : l \in LeisureValues, t \in TourismValues}

Elements ==
    {Element(Num(42), tg, Num(48), Num(2)) : tg \in TagCombinations}
    \cup {Element(id, tg, Num(48), Num(2)) :
            id \in IdValues, tg \in {Undefined, Tags(Str("park"), Str("zoo"), Str("Luna"))}}
    \cup {Element(Undefined, Tags(Undefined, Undefined, Str("")), Undefined, Undefined)}

ElementLists == UNION {[1..k -> Elements] : k \in 0..MaxElements}

MapInit ==
    /\ elements \in ElementLists
    /\ activities = <<>>
    /\ returned = FALSE

\* return elements.map(...)
MapActivities ==
    /\ ~returned
    /\ activities' = MapElements(elements)
    /\ returned' = TRUE
    /\ UNCHANGED <<elements, queryVars, serverVars>>

MapNext == MapActivities

-----------------------------------------------------------------------------
\* Strings the handler takes apart. A text is the sequence of its pieces: single
\* characters, or words that hold no comma, digit or sign.

Text(pieces) == [t |-> "text", v |-> pieces]
QueryArray(texts) == [t |-> "list", v |-> texts]     \* a query key given more than once

DigitValue ==
    ("0" :> 0) @@ ("1" :> 1) @@ ("2" :> 2) @@ ("3" :> 3) @@ ("4" :> 4) @@
    ("5" :> 5) @@ ("6" :> 6) @@ ("7" :> 7) @@ ("8" :> 8) @@ ("9" :> 9)

RECURSIVE JoinWithComma(_)
JoinWithComma(texts) ==
    IF texts = <<>> THEN <<>>
    ELSE IF Len(texts) = 1 THEN texts[1].v
    ELSE texts[1].v \o <<",">> \o JoinWithComma(Tail(texts))

\* ToString of a query value: the text itself, the entries of a list joined by ','.
PiecesOf(x) ==
    CASE x.t = "text" -> x.v
      [] x.t = "list" -> JoinWithComma(x.v)
      [] OTHER        -> <<x.t>>

RECURSIVE LeadingDigits(_)
LeadingDigits(p) ==
    IF p # <<>> /\ Head(p) \in DOMAIN DigitValue THEN <<Head(p)>> \o LeadingDigits(Tail(p))
    ELSE <<>>

RECURSIVE DecimalValue(_)
DecimalValue(ds) ==
    IF ds = <<>> THEN 0
    ELSE 10 * DecimalValue(SubSeq(ds, 1, Len(ds) - 1)) + DigitValue[ds[Len(ds)]]

\* parseFloat: the longest numeric prefix (a sign, then digits), NaN when there is none.
parseFloat(x) ==
    IF x.t = "number" THEN x
    ELSE LET p == PiecesOf(x)
             negative == p # <<>> /\ Head(p) = "-"
             ds == LeadingDigits(IF negative THEN Tail(p) ELSE p)
         IN  IF ds = <<>> THEN NaN
             ELSE Num(IF negative THEN 0 - DecimalValue(ds) ELSE DecimalValue(ds))

\* String.prototype.split(','): the pieces between the commas, '' included.
RECURSIVE SplitOnComma(_)
SplitOnComma(p) ==
    IF \A i \in 1..Len(p) : p[i] # "," THEN <<Join(p)>>
    ELSE LET i == CHOOSE k \in 1..Len(p) : p[k] = "," /\ \A j \in 1..(k - 1) : p[j] # ","
         IN  <<Join(SubSeq(p, 1, i - 1))>> \o SplitOnComma(SubSeq(p, i + 1, Len(p)))

\* .filter(Boolean) of an array of strings
FilterNonEmpty(strs) == SelectSeq(strs, LAMBDA str : str # "")

-----------------------------------------------------------------------------
\* JSON values and JSON.parse / JSON.stringify on the documents of the model.

Arr(seq) == [t |-> "array", v |-> seq]
Obj(fields) == [t |-> "object", v |-> fields]

\* o[f] of a value that is not null or undefined
Get(o, f) == IF o.t = "object" /\ f \in DOMAIN o.v THEN o.v[f] ELSE Undefined

\* o.length
LengthOf(o) == IF o.t = "array" THEN Num(Len(o.v)) ELSE Get(o, "length")

\* A settled promise.
Resolved(v) == [ok |-> TRUE, value |-> v]
Rejected(msg) == [ok |-> FALSE, message |-> msg]

\* The bodies the two services send, each as the chunks it arrives in.
GeocodeDocs ==
    { <<"[]">>,
      <<"[{\"lat\":\"48\",", "\"lon\":\"2\"}]">>,
      <<"[{}]">>,
      <<"null">>,
      <<"<html>504</html>">> }

OverpassDocs ==
    { <<"{\"elements\":[{\"tags\":{\"name\":\"Luna\"}},", "{\"id\":0,\"tags\":{\"leisure\":\"park\",\"tourism\":\"zoo\"},\"lat\":48,\"lon\":2}]}">>,
      <<"{\"elements\":[null]}">>,
      <<"{}">>,
      <<"null">>,
      <<"<html>504</html>">> }

DocsOf(service) == IF service = "nominatim" THEN GeocodeDocs ELSE OverpassDocs

\* JSON.parse, on the texts above; any other text is a SyntaxError.
ParseJSON(text) ==
    CASE text = "[]" -> Resolved(Arr(<<>>))
      [] text = "[{\"lat\":\"48\",\"lon\":\"2\"}]" ->
            Resolved(Arr(<<Obj([lat |-> Text(<<"4", "8">>), lon |-> Text(<<"2">>)])>>))
      [] text = "[{}]" -> Resolved(Arr(<<Obj(<<>>)>>))
      [] text = "null" -> Resolved(Null)
      [] text = "{}" -> Resolved(Obj(<<>>))
      [] text = "{\"elements\":[null]}" -> Resolved(Obj([elements |-> Arr(<<Null>>)]))
      [] text = "{\"elements\":[{\"tags\":{\"name\":\"Luna\"}},{\"id\":0,\"tags\":{\"leisure\":\"park\",\"tourism\":\"zoo\"},\"lat\":48,\"lon\":2}]}" ->
            Resolved(Obj([elements |-> Arr(<<
                Element(Undefined, Tags(Undefined, Undefined, Str("Luna")), Undefined, Undefined),
                Element(Num(0), Tags(Str("park"), Str("zoo"), Undefined), Num(48), Num(2)) >>)]))
      [] text = "" -> Rejected("Unexpected end of JSON input")
      [] OTHER -> Rejected("Unexpected token in JSON")

\* JSON.stringify of a property value: NaN is written null, undefined is left out.
Omitted == [t |-> "omitted"]
JSONProperty(x) == IF x = NaN THEN Null ELSE IF x = Undefined THEN Omitted ELSE x

JSONActivity(a) ==
    [id |-> JSONProperty(a.id), name |-> JSONProperty(a.name), category |-> a.category,
     lat |-> JSONProperty(a.lat), lon |-> JSONProperty(a.lon)]

-----------------------------------------------------------------------------
\* geocode and fetchActivities after their await (server.js 39-43, 73-92)

GreaterThanZero(n) == n.t = "number" /\ n.v > 0

\* results[0]
FirstOf(results) == IF results.t = "array" THEN results.v[1] ELSE Get(results, "0")

\* A geocode that answers an empty result list with no coordinates instead of throwing.
geocode_NoThrow(settled) ==
    IF ~settled.ok THEN settled
    ELSE IF Truthy(settled.value) /\ GreaterThanZero(LengthOf(settled.value))
              /\ FirstOf(settled.value) \notin {Undefined, Null}
         THEN Resolved([lat |-> parseFloat(Get(FirstOf(settled.value), "lat")),
                        lon |-> parseFloat(Get(FirstOf(settled.value), "lon"))])
         ELSE Resolved([lat |-> NaN, lon |-> NaN])

\* geocode, given how fetchJSON(endpoint) settled
geocode(settled) ==
    IF ~settled.ok THEN settled
    ELSE LET results == settled.value
         IN  IF Truthy(results) /\ GreaterThanZero(LengthOf(results))
             THEN IF FirstOf(results) \in {Undefined, Null}
                  THEN Rejected("Cannot read properties of undefined (reading 'lat')")
                  ELSE Resolved([lat |-> parseFloat(Get(FirstOf(results), "lat")),
                                 lon |-> parseFloat(Get(FirstOf(results), "lon"))])
             ELSE Rejected("No results")

\* fetchActivities, given how fetchJSON(overpassUrl) settled
fetchActivities(settled) ==
    IF ~settled.ok THEN settled
    ELSE LET data == settled.value
         IN  IF data \in {Undefined, Null}
             THEN Rejected("Cannot read properties of null (reading 'elements')")
             ELSE LET els == IF Truthy(Get(data, "elements")) THEN Get(data, "elements")
                             ELSE Arr(<<>>)
                  IN  IF els.t # "array" THEN Rejected("elements.map is not a function")
                      ELSE IF \E k \in 1..Len(els.v) : els.v[k] \in {Undefined, Null}
                      THEN Rejected("Cannot read properties of null (reading 'tags')")
                      ELSE Resolved(MapElements(els.v))

-----------------------------------------------------------------------------
\* The static root and path.join (server.js 139)

AppDir == <<"app">>                     \* __dirname
StaticRoot == AppDir \o <<"public">>

RegularFiles ==
    { StaticRoot \o <<"index.html">>, StaticRoot \o <<"style.css">>,
      AppDir \o <<"server.js">> }
Directories == { <<>>, AppDir, StaticRoot, StaticRoot \o <<"img">> }

\* path.normalize of an absolute path: '' and '.' dropped, '..' removes a segment.
RECURSIVE Normalize(_, _)
Normalize(done, rest) ==
    IF rest = <<>> THEN done
    ELSE IF Head(rest) \in {"", "."} THEN Normalize(done, Tail(rest))
    ELSE IF Head(rest) = ".."
         THEN Normalize(IF done = <<>> THEN done ELSE SubSeq(done, 1, Len(done) - 1), Tail(rest))
    ELSE Normalize(Append(done, Head(rest)), Tail(rest))

PathJoin(dir, sub, pathname) == Normalize(<<>>, dir \o sub \o pathname)

\* path.extname of the file names of the model
ExtName(filePath) ==
    LET base == IF filePath = <<>> THEN "" ELSE filePath[Len(filePath)]
    IN  CASE base = "index.html" -> ".html"
          [] base = "style.css"  -> ".css"
          [] base = "server.js"  -> ".js"
          [] OTHER               -> ""

MIME_TYPES ==
    (".html" :> "text/html") @@ (".css" :> "text/css") @@
    (".js" :> "application/javascript") @@ (".json" :> "application/json") @@
    (".png" :> "image/png") @@ (".jpg" :> "image/jpeg") @@ (".jpeg" :> "image/jpeg") @@
    (".svg" :> "image/svg+xml")

ContentType(filePath) ==
    IF ExtName(filePath) \in DOMAIN MIME_TYPES THEN MIME_TYPES[ExtName(filePath)]
    ELSE "application/octet-stream"

-----------------------------------------------------------------------------
\* The request handler up to its first await or callback (server.js 95-140)

Response(status, type, body) == [status |-> status, type |-> type, body |-> body]
NoResponse == Response(0, "", [none |-> TRUE])

Query(city, la, lo, r, cats) ==
    [city |-> city, lat |-> la, lon |-> lo, radius |-> r, categories |-> cats]
Request(pathname, q) == [pathname |-> pathname, query |-> q]

\* What the synchronous part of the handler does with a request: it responds,
\* starts an outbound call, starts fs.stat, or throws.
HandleRequest(req) ==
    IF req.pathname = <<"api", "geocode">>
    THEN IF ~Truthy(req.query.city)
         THEN [do |-> "respond",
               res |-> Response(400, "application/json", [error |-> "Missing city"])]
         ELSE [do |-> "fetch", url |-> [service |-> "nominatim", city |-> req.query.city]]
    ELSE IF req.pathname = <<"api", "activities">>
    THEN LET la == parseFloat(req.query.lat)
             lo == parseFloat(req.query.lon)
             ra == parseFloat(req.query.radius)
             cq == IF Truthy(req.query.categories) THEN req.query.categories ELSE Text(<<>>)
         IN  IF cq.t # "text"
             THEN [do |-> "throw", message |-> "(parsed.query.categories || '').split is not a function"]
             ELSE LET cats == FilterNonEmpty(SplitOnComma(cq.v))
                  IN  IF isNaN(la) \/ isNaN(lo) \/ isNaN(ra) \/ Len(cats) = 0
                      THEN [do |-> "respond",
                            res |-> Response(400, "application/json",
                                             [error |-> "Invalid parameters"])]
                      ELSE [do |-> "fetch",
                            url |-> [service |-> "overpass",
                                     data |-> buildOverpassQuery(la, lo, ra, cats)]]
    ELSE [do |-> "stat",
          filePath |-> PathJoin(AppDir, <<"public">>,
                                IF req.pathname = <<>> THEN <<"index.html">>
                                ELSE req.pathname)]

\* The response the handler writes once its awaited call has settled.
GeocodeResponse(settled) ==
    IF settled.ok
    THEN Response(200, "application/json",
                  [lat |-> JSONProperty(settled.value.lat),
                   lon |-> JSONProperty(settled.value.lon)])
    ELSE Response(500, "application/json", [error |-> settled.message])

ActivitiesResponse(settled) ==
    IF settled.ok
    THEN Response(200, "application/json",
                  [results |-> [k \in 1..Len(settled.value) |-> JSONActivity(settled.value[k])]])
    ELSE Response(500, "application/json", [error |-> settled.message])

\* The handler's continuation after await geocode(city) / await fetchActivities(...).
SettledResponse(service, settled) ==
    IF service = "nominatim" THEN GeocodeResponse(geocode(settled))
    ELSE ActivitiesResponse(fetchActivities(settled))

-----------------------------------------------------------------------------
\* The server: requests in arrival order, each with its own handler state.

MaxRequests == 2    \* requests the server receives

RequestIds == 1..MaxRequests

NoQuery == Query(Undefined, Undefined, Undefined, Undefined, Undefined)

Idle ==
    [pc |-> "none", req |-> Request(<<>>, NoQuery), url |-> [service |-> "none"],
     filePath |-> <<>>, call |-> "none", data |-> "", calls |-> 0,
     res |-> NoResponse, responses |-> 0]

\* The requests clients send.
GeocodeRequests ==
    { Request(<<"api", "geocode">>, Query(city, Undefined, Undefined, Undefined, Undefined)) :
        city \in {Undefined, Text(<<>>), Text(<<"Paris">>)} }

ActivityQuery(la, lo, r, cats) == Query(Undefined, la, lo, r, cats)

\* One valid request and its variants, each changing one parameter.
ValidLat == Text(<<"-", "1", "2">>)
ValidLon == Text(<<"2">>)
ValidRadius == Text(<<"5", "0", "0">>)
ParkAndZoo == QueryArray(<<Text(<<"park">>), Text(<<"zoo">>)>>)   \* categories=park&categories=zoo

ActivityRequests ==
    { Request(<<"api", "activities">>, q) : q \in
        { ActivityQuery(la, ValidLon, ValidRadius, Text(<<"park">>)) :
            la \in {ValidLat, Undefined, Text(<<>>), Text(<<"abc">>), Text(<<"1", "a">>)} }
        \cup
        { ActivityQuery(ValidLat, lo, r, Text(<<"park">>)) :
            lo \in {Text(<<"x">>), ValidLon}, r \in {Undefined, ValidRadius} }
        \cup
        { ActivityQuery(ValidLat, ValidLon, ValidRadius, cats) :
            cats \in {Undefined, Text(<<>>), Text(<<",">>), Text(<<",", ",">>),
                      Text(<<"castle", ",", ",", "zoo">>), ParkAndZoo} }
        \cup
        { ActivityQuery(Text(<<"abc">>), ValidLon, ValidRadius, ParkAndZoo) } }

StaticRequests ==
    { Request(pathname, NoQuery) : pathname \in
        { <<>>, <<"style.css">>, <<"missing.txt">>, <<"img">>,
          <<"img", "..", "index.html">>, <<"..", "server.js">> } }

HttpRequests == GeocodeRequests \cup ActivityRequests \cup StaticRequests

ServerInit ==
    /\ requests = [r \in RequestIds |-> Idle]
    /\ process = "running"

\* The body text the 'end' callback of request r parses, were `data` one
\* variable shared by every fetchJSON call.
Received_Shared(rs, r) ==
    rs[CHOOSE k \in DOMAIN rs : /\ rs[k].pc = "receiving" /\ rs[k].call = "body"
                                /\ \A j \in 1..(k - 1) : ~(rs[j].pc = "receiving" /\ rs[j].call = "body")].data

\* The body text the 'end' callback of request r parses: the `data` of its own call.
Received(rs, r) == rs[r].data

Respond(r, res) ==
    [requests[r] EXCEPT !.pc = "responded", !.res = res, !.responses = @ + 1]

\* A request arrives and the handler runs up to its first await or callback.
Accept(r, req) ==
    /\ process = "running"
    /\ requests[r].pc = "none"
    /\ r > 1 => requests[r - 1].pc # "none"
    /\ UNCHANGED <<queryVars, mapVars>>
    /\ LET h == HandleRequest(req)
           rq == [requests[r] EXCEPT !.req = req]
       IN  \/ /\ h.do = "respond"
              /\ requests' = [requests EXCEPT ![r] =
                    [rq EXCEPT !.pc = "responded", !.res = h.res, !.responses = @ + 1]]
              /\ UNCHANGED <<process, queryVars, mapVars>>
           \/ /\ h.do = "fetch"
              /\ requests' = [requests EXCEPT ![r] =
                    [rq EXCEPT !.pc = "fetching", !.url = h.url, !.call = "open",
                               !.calls = @ + 1]]
              /\ UNCHANGED <<process, queryVars, mapVars>>
           \/ /\ h.do = "stat"
              /\ requests' = [requests EXCEPT ![r] =
                    [rq EXCEPT !.pc = "statting", !.filePath = h.filePath, !.call = "stat"]]
              /\ UNCHANGED <<process, queryVars, mapVars>>
           \/ \* The async handler rejects outside any try: an unhandled rejection,
              \* which ends the process (Node 15 and later) or is only warned about.
              /\ h.do = "throw"
              /\ requests' = [requests EXCEPT ![r] = [rq EXCEPT !.pc = "abandoned"]]
              /\ process' \in {"running", "exited"}

\* The outbound request emits 'error' before any response: reject(err).
FetchError(r) ==
    /\ process = "running"
    /\ requests[r].pc = "fetching"
    /\ requests' = [requests EXCEPT ![r] =
          [Respond(r, SettledResponse(requests[r].url.service, Rejected("connect ECONNREFUSED")))
              EXCEPT !.call = "error"]]
    /\ UNCHANGED <<process, queryVars, mapVars>>

\* The response callback runs: let data = ''.
FetchResponse(r) ==
    /\ process = "running"
    /\ requests[r].pc = "fetching"
    /\ requests' = [requests EXCEPT ![r] = [@ EXCEPT !.pc = "receiving", !.call = "body", !.data = ""]]
    /\ UNCHANGED <<process, queryVars, mapVars>>

CompleteTexts(service) == {Join(doc) : doc \in DocsOf(service)}

\* 'data': data += chunk, the next chunk of one of the service's bodies.
FetchData(r, chunk) ==
    /\ process = "running"
    /\ requests[r].pc = "receiving"
    /\ requests[r].call = "body"
    /\ \E doc \in DocsOf(requests[r].url.service) : \E k \in 0..(Len(doc) - 1) :
          /\ Join(SubSeq(doc, 1, k)) = requests[r].data
          /\ chunk = doc[k + 1]
    /\ requests' = [requests EXCEPT ![r] = [@ EXCEPT !.data = @ \o chunk]]
    /\ UNCHANGED <<process, queryVars, mapVars>>

\* 'end': JSON.parse(data) settles the promise and the handler responds.
FetchEnd(r) ==
    /\ process = "running"
    /\ requests[r].pc = "receiving"
    /\ requests[r].call = "body"
    /\ requests[r].data \in CompleteTexts(requests[r].url.service)
    /\ requests' = [requests EXCEPT ![r] =
          [Respond(r, SettledResponse(requests[r].url.service, ParseJSON(Received(requests, r))))
              EXCEPT !.call = "ended"]]
    /\ UNCHANGED <<process, queryVars, mapVars>>

\* The connection is lost before the body is complete. The response stream has no
\* 'error' listener and the request's 'error' is not emitted after a response; the
\* stream emits 'aborted' and then either nothing (it is destroyed without 'end')
\* or, on runtimes that still push the end of the stream, 'end' with the partial body.
FetchAbort(r) ==
    /\ process = "running"
    /\ requests[r].pc = "receiving"
    /\ requests[r].call = "body"
    /\ requests[r].data \notin CompleteTexts(requests[r].url.service)
    /\ \/ requests' = [requests EXCEPT ![r] = [@ EXCEPT !.call = "aborted"]]
       \/ requests' = [requests EXCEPT ![r] =
             [Respond(r, SettledResponse(requests[r].url.service,
                                         ParseJSON(Received(requests, r))))
                 EXCEPT !.call = "aborted"]]
    /\ UNCHANGED <<process, queryVars, mapVars>>

\* The fs.stat callback: 404 on an error or on anything but a regular file,
\* otherwise fs.readFile is started.
StatDone(r, err) ==
    /\ process = "running"
    /\ requests[r].pc = "statting"
    /\ ~err => requests[r].filePath \in RegularFiles \cup Directories
    /\ requests' = [requests EXCEPT ![r] =
          IF err \/ requests[r].filePath \notin RegularFiles
          THEN [Respond(r, Response(404, "", [text |-> "Not found"])) EXCEPT !.call = "statted"]
          ELSE [@ EXCEPT !.pc = "reading", !.call = "read"]]
    /\ UNCHANGED <<process, queryVars, mapVars>>

\* The fs.readFile callback: 500 on an error, otherwise the file's bytes.
ReadDone(r, err) ==
    /\ process = "running"
    /\ requests[r].pc = "reading"
    /\ requests' = [requests EXCEPT ![r] =
          [Respond(r, IF err THEN Response(500, "", [text |-> "Internal server error"])
                      ELSE Response(200, ContentType(requests[r].filePath),
                                    [file |-> requests[r].filePath]))
              EXCEPT !.call = "readDone"]]
    /\ UNCHANGED <<process, queryVars, mapVars>>

Chunks == UNION {{doc[k] : k \in 1..Len(doc)} : doc \in GeocodeDocs \cup OverpassDocs}

ServerNext ==
    \E r \in RequestIds :
        \/ \E req \in HttpRequests : Accept(r, req)
        \/ FetchError(r)
        \/ FetchResponse(r)
        \/ \E chunk \in Chunks : FetchData(r, chunk)
        \/ FetchEnd(r)
        \/ FetchAbort(r)
        \/ \E err \in BOOLEAN : StatDone(r, err)
        \/ \E err \in BOOLEAN : ReadDone(r, err)

-----------------------------------------------------------------------------
\* The parts of the state a specification does not use.

QueryIdle ==
    /\ lat = NaN /\ lon = NaN /\ radius = NaN
    /\ categories = <<>> /\ query = Unset /\ prevQuery = Unset

MapIdle == elements = <<>> /\ activities = <<>> /\ returned = FALSE

ServerIdle == requests = <<>> /\ process = "running"

\* The server.
Init == ServerInit /\ QueryIdle /\ MapIdle
Next == ServerNext
Spec == Init /\ [][Next]_vars

\* The query builder alone.
InitQuery == QueryInit /\ MapIdle /\ ServerIdle
SpecQuery == InitQuery /\ [][QueryNext]_vars

\* The query builder on lists that grow by one entry at a time.
InitExtend == ExtendInit /\ MapIdle /\ ServerIdle
SpecExtend == InitExtend /\ [][ExtendNext]_vars

\* The element mapping alone.
InitMap == MapInit /\ QueryIdle /\ ServerIdle
SpecMap == InitMap /\ [][MapNext]_vars

-----------------------------------------------------------------------------
\* Claims about buildOverpassQuery (C1 under SpecQuery, C2 under SpecExtend).

FilterTag ==
    [playground |-> "leisure=playground", park |-> "leisure=park",
     theme_park |-> "tourism=theme_park", zoo |-> "tourism=zoo",
     museum |-> "tourism=museum", water_park |-> "leisure=water_park"]

FilterFor(c) ==
    "node[" \o FilterTag[c] \o "](around:" \o NumberToString(radius) \o ","
            \o NumberToString(lat) \o "," \o NumberToString(lon) \o ");"

RECURSIVE FiltersInOrder(_)
FiltersInOrder(cats) ==
    IF cats = <<>> THEN "" ELSE FilterFor(Head(cats)) \o FiltersInOrder(Tail(cats))

IsDistinctKnown(cats) ==
    /\ cats # <<>>
    /\ \A i \in 1..Len(cats) : cats[i] \in KnownCategories
    /\ \A i, j \in 1..Len(cats) : i # j => cats[i] # cats[j]

\* C1: for every non-empty list of distinct known category names the query is the
\* fixed prefix, then exactly one filter clause per requested category in the order
\* of the list, then ');out body;'.
C1_OneClausePerCategoryInOrder ==
    (query # Unset /\ IsDistinctKnown(categories)) =>
        query = "[out:json][timeout:25];(" \o FiltersInOrder(categories) \o ");out body;"

\* All six categories requested, in an order other than the switch's.
C1_Witness ==
    /\ query # Unset
    /\ categories = <<"zoo", "playground", "water_park", "park", "museum", "theme_park">>
    /\ lat = Num(-12)

NumRecognized(cats) == Cardinality({i \in 1..Len(cats) : cats[i] \in KnownCategories})

\* The lists that repeat one name, as 'zoo,zoo,zoo' in the categories parameter.
UniformLists == {[i \in 1..n |-> c] : c \in CategoryNames, n \in 1..MaxCats}

\* C2 as stated: an unrecognized name adds no characters, and of any two lists the
\* one with strictly more recognized entries yields the strictly longer query (the
\* built list is compared with every list that repeats one name).
C2_LengthOrdersRecognizedCount ==
    query # Unset =>
        /\ prevQuery # Unset /\ categories[Len(categories)] \notin KnownCategories
              => query = prevQuery
        /\ \A other \in UniformLists :
              NumRecognized(categories) > NumRecognized(other)
                  => Len(query) > Len(buildOverpassQuery(lat, lon, radius, other))

\* C2 amended: an unrecognized name appended to a list leaves the query unchanged,
\* and a recognized name appended to a list makes the query strictly longer.
C2_AppendLengthens ==
    prevQuery # Unset =>
        IF categories[Len(categories)] \in KnownCategories
        THEN Len(query) > Len(prevQuery)
        ELSE query = prevQuery

\* A repeated recognized name was appended after an unrecognized one.
C2_Witness ==
    /\ prevQuery # Unset
    /\ categories = <<"park", "castle", "park">>
    /\ Len(query) > Len(prevQuery)

-----------------------------------------------------------------------------
\* Claims about the element mapping (checked under SpecMap).

\* The inference rules in their priority order: tag key, tag value, category.
InferenceRules ==
    << <<"leisure", "playground", "playground">>, <<"leisure", "park", "park">>,
       <<"tourism", "theme_park", "theme_park">>, <<"tourism", "zoo", "zoo">>,
       <<"tourism", "museum", "museum">>, <<"leisure", "water_park", "water_park">> >>

RuleMatches(el, rule) ==
    /\ el.tags # Undefined
    /\ el.tags[rule[1]] = Str(rule[2])

FirstMatchingCategory(el) ==
    LET m == {i \in 1..Len(InferenceRules) : RuleMatches(el, InferenceRules[i])}
    IN  IF m = {} THEN "unknown"
        ELSE InferenceRules[CHOOSE i \in m : \A j \in m : i <= j][3]

\* C5: every activity's category is that of the first rule, in the priority order
\* playground, park, theme_park, zoo, museum, water_park, that its element's tags
\* match, and 'unknown' when none matches or the element has no tags.
C5_FirstMatchingRuleWins ==
    returned =>
        \A i \in 1..Len(elements) :
            activities[i].category = FirstMatchingCategory(elements[i])

\* An element tagged leisure=park and tourism=zoo was mapped to 'park'.
C5_Witness ==
    /\ returned
    /\ \E i \in 1..Len(elements) :
          /\ elements[i].tags # Undefined
          /\ elements[i].tags.leisure = Str("park")
          /\ elements[i].tags.tourism = Str("zoo")
          /\ activities[i].category = "park"

\* C9 as stated: one activity per element, whose id is the element's identifier
\* whenever it carries one (0 included) and its zero-based position otherwise.
C9_IdIsIdentifierWhenPresent ==
    returned =>
        /\ Len(activities) = Len(elements)
        /\ \A i \in 1..Len(elements) :
              activities[i].id = IF elements[i].id # Undefined THEN elements[i].id
                                 ELSE Num(i - 1)

-----------------------------------------------------------------------------
\* Claims about the request handler (checked under Spec).

Arrived(r) == requests[r].pc # "none"
IsGeocode(r) == requests[r].req.pathname = <<"api", "geocode">>
IsActivities(r) == requests[r].req.pathname = <<"api", "activities">>
IsStatic(r) == ~IsGeocode(r) /\ ~IsActivities(r)

\* How the fetchJSON call of request r settled, read off its connection.
FetchSettled(r) ==
    IF requests[r].call = "error" THEN Rejected("connect ECONNREFUSED")
    ELSE ParseJSON(requests[r].data)

\* The entries of the categories parameter: of each value it carries, the
\* non-empty pieces between the commas.
RECURSIVE EntriesOfAll(_)
EntriesOfAll(texts) ==
    IF texts = <<>> THEN <<>>
    ELSE FilterNonEmpty(SplitOnComma(Head(texts).v)) \o EntriesOfAll(Tail(texts))

CategoryEntries(x) ==
    CASE x.t = "text" -> FilterNonEmpty(SplitOnComma(x.v))
      [] x.t = "list" -> EntriesOfAll(x.v)
      [] OTHER        -> <<>>

InvalidParameters(q) ==
    \/ isNaN(parseFloat(q.lat))
    \/ isNaN(parseFloat(q.lon))
    \/ isNaN(parseFloat(q.radius))
    \/ CategoryEntries(q.categories) = <<>>

\* C3 as stated: an activities request is answered 400 'Invalid parameters', with
\* no outbound call, exactly when lat, lon or radius is not a number or the
\* categories parameter has no entry; every other request reaches the activity
\* fetcher (one call to the map-data service) and is answered 200 with results
\* when the fetch succeeds and 500 with the error message when it fails.
C3_InvalidParametersExactly ==
    \A r \in RequestIds : (Arrived(r) /\ IsActivities(r)) =>
        IF InvalidParameters(requests[r].req.query)
        THEN /\ requests[r].pc = "responded"
             /\ requests[r].res = Response(400, "application/json",
                                           [error |-> "Invalid parameters"])
             /\ requests[r].calls = 0
        ELSE /\ requests[r].calls = 1
             /\ requests[r].url.service = "overpass"
             /\ requests[r].pc = "responded" =>
                   requests[r].res = ActivitiesResponse(fetchActivities(FetchSettled(r)))

\* Why the Geocoder fails for request r, "none" when it does not: a network
\* failure, malformed JSON, or no result.
GeocoderFailure(r) ==
    LET parsed == ParseJSON(requests[r].data)
    IN  CASE requests[r].call = "error" -> "connect ECONNREFUSED"
          [] ~parsed.ok -> parsed.message
          [] parsed.value = Null \/ parsed.value = Arr(<<>>) -> "No results"
          [] OTHER -> "none"

IsUnder(path, root) ==
    /\ Len(path) > Len(root)
    /\ SubSeq(path, 1, Len(root)) = root

\* C6 as stated: the file served for a static request lies under the static
\* root, '/' maps to the default document, and a path that names no regular file
\* under the root is answered 404 'Not found'.
C6_ServedFileUnderStaticRoot ==
    \A r \in RequestIds : (Arrived(r) /\ IsStatic(r)) =>
        /\ requests[r].req.pathname = <<>> => requests[r].filePath = StaticRoot \o <<"index.html">>
        /\ requests[r].pc = "responded" =>
              IF requests[r].filePath \in RegularFiles /\ IsUnder(requests[r].filePath, StaticRoot)
              THEN "file" \in DOMAIN requests[r].res.body
                      => IsUnder(requests[r].res.body.file, StaticRoot)
              ELSE requests[r].res = Response(404, "", [text |-> "Not found"])

\* C7 as stated: a 200 from the geocode route means the upstream list was not
\* empty and the body holds numbers: the first entry's lat and lon parsed as
\* floating point, never null.
C7_GeocodeBodyIsNumeric ==
    \A r \in RequestIds :
        (IsGeocode(r) /\ requests[r].pc = "responded" /\ requests[r].res.status = 200) =>
            LET results == ParseJSON(requests[r].data).value
            IN  /\ results.t = "array" /\ Len(results.v) > 0
                /\ requests[r].res.body.lat.t = "number"
                /\ requests[r].res.body.lon.t = "number"
                /\ requests[r].res.body.lat = parseFloat(Get(results.v[1], "lat"))
                /\ requests[r].res.body.lon = parseFloat(Get(results.v[1], "lon"))

\* The outbound call or file access of request r has completed or failed.
CallOver(r) == requests[r].call \in {"error", "ended", "aborted", "statted", "readDone"}

\* C8 as stated: a request whose outbound call or file access has completed or
\* failed has received exactly one response, whatever the outcome; no call is
\* made twice, no request is answered twice, and no failure ends the server.
C8_EveryRequestAnsweredOnce ==
    /\ process = "running"
    /\ \A r \in RequestIds :
          /\ requests[r].calls <= 1
          /\ requests[r].responses <= 1
          /\ CallOver(r) => requests[r].pc = "responded" /\ requests[r].responses = 1

\* The response request r gets when it is the only request, given the outcome
\* of its own outbound call or file access.
SoloResponses(r) ==
    LET h == HandleRequest(requests[r].req)
    IN  CASE h.do = "respond" -> {h.res}
          [] h.do = "fetch" -> {SettledResponse(h.url.service, FetchSettled(r))}
          [] h.do = "stat" ->
                IF requests[r].call = "statted"
                THEN {Response(404, "", [text |-> "Not found"])}
                ELSE {Response(500, "", [text |-> "Internal server error"]),
                      Response(200, ContentType(h.filePath), [file |-> h.filePath])}
          [] OTHER -> {}

====
